---- MODULE Spec2Model ----
(***************************************************************************)
(* Model of transfer_spotify_to_youtube_music.py: the resumable transfer   *)
(* loop (search_and_add_to_playlist), its entry point (transfer_playlist), *)
(* the progress file (save_progress / load_progress), the extraction of    *)
(* the source tracks (get_spotify_tracks, specification SpecExtract) and   *)
(* the resolution of the destination playlist                              *)
(* (create_or_get_youtube_playlist, specification SpecPlaylist).           *)
(*                                                                         *)
(* One behaviour is a series of executions of the script on one machine:   *)
(* an entry point is called, the loop makes its YouTube calls one by one,  *)
(* the call ends, the process exits (Exit) and only the progress file and  *)
(* YouTube keep what it did.  Every YouTube call may return, raise         *)
(* HttpError with or without "quotaExceeded", or raise anything else.      *)
(* File operations succeed (no I/O error); SpecCrash is the specification  *)
(* in which the process may die inside save_progress.                      *)
(* The variables run, start, cur, ev, skips, transfer and cog record what   *)
(* happened, for the properties; the program does not read them.           *)
(***************************************************************************)
EXTENDS Integers, Sequences, FiniteSets, TLC

\* ---------------------------------------------------------------- bounds
MaxTracks == 2          \* longest track list handed to a run
MaxRuns == 2            \* invocations of an entry point in one behaviour
MaxItems == 3           \* items of a source collection on Spotify
MaxLimit == 2           \* largest page size of the Spotify paging
MaxResolves == 2        \* calls of create_or_get_youtube_playlist

\* ------------------------------------------------------ program constants
max_retries == 3        \* default of search_and_add_to_playlist
delay == 2              \* default of search_and_add_to_playlist

\* ---------------------------------------------------------- input domains
\* Two of the three tracks share a name: a name is not a unique key.
TrackA1 == [name |-> "a", artists |-> <<"x">>]
TrackA2 == [name |-> "a", artists |-> <<"y">>]
TrackB == [name |-> "b", artists |-> <<"x">>]
Tracks == {TrackA1, TrackA2, TrackB}
TrackLists == UNION {[1..n -> Tracks] : n \in 0..MaxTracks}
PlaylistIds == {"P1", "P2"}
None == "None"

\* ------------------------------------------------------- list operations
Range(s) == {s[i] : i \in 1..Len(s)}
NamesOf(s) == {s[i].name : i \in 1..Len(s)}
NameSeq(s) == [i \in 1..Len(s) |-> s[i].name]
Count(t, s) == Cardinality({i \in 1..Len(s) : s[i] = t})

\* list.remove(x) leaving the list alone (mutant of Remove)
RemoveNothing(s, t) == s

\* list.remove(x) written as a filter, dropping every equal element
\* (mutant of Remove)
RemoveEvery(s, t) == SelectSeq(s, LAMBDA x : x # t)

\* list.remove(x): drops the first element equal to x
Remove(s, t) ==
    IF t \notin Range(s) THEN s
    ELSE LET i == CHOOSE k \in 1..Len(s) :
                      s[k] = t /\ \A j \in 1..(k - 1) : s[j] # t
         IN SubSeq(s, 1, i - 1) \o SubSeq(s, i + 1, Len(s))

\* ---------------------------------------------------- the progress file
\* The file is the sequence of chunks json.dump has written so far.
NoFile == [exists |-> FALSE, content |-> <<>>]
Absent == [status |-> "absent", playlist_id |-> None,
           processed_tracks |-> <<>>, remaining_tracks |-> <<>>]
Corrupt == [status |-> "corrupt", playlist_id |-> None,
            processed_tracks |-> <<>>, remaining_tracks |-> <<>>]
Loaded(pid, proc, rem) ==
    [status |-> "ok", playlist_id |-> pid,
     processed_tracks |-> proc, remaining_tracks |-> rem]

\* json.dump of the progress dict, as the chunks written to the file
json_dump(pid, proc, rem) == <<"{", pid, proc, rem, "}">>

\* json.load: a complete document parses, anything shorter raises
json_load(c) ==
    IF Len(c) = 5 /\ c[1] = "{" /\ c[5] = "}"
    THEN Loaded(c[2], c[3], c[4])
    ELSE Corrupt

\* save_progress run to completion: the file holds the whole new record
save_progress(pid, proc, rem) ==
    [exists |-> TRUE, content |-> json_dump(pid, proc, rem)]

\* load_progress: None when the file is absent, else json.load of it
load_progress(f) == IF f.exists THEN json_load(f.content) ELSE Absent

\* end of run keeping the file whatever is left (mutant of Cleanup)
CleanupNever(rem, f) == f

\* end of run unlinking the file whatever is left (mutant of Cleanup)
CleanupAlways(rem, f) == NoFile

\* end of run: the file is unlinked when remaining_tracks is empty
Cleanup(rem, f) == IF rem = <<>> THEN NoFile ELSE f

\* --------------------------------------------------- resume on entry
\* progress and progress['playlist_id'] == playlist_id
ResumeFrom(progress, pid) ==
    progress.status = "ok" /\ progress.playlist_id = pid

InitialProcessed(progress, pid) ==
    IF ResumeFrom(progress, pid) THEN progress.processed_tracks ELSE <<>>

\* a resumed run working through its tracks argument (mutant)
InitialRemainingArg(progress, pid, trks) == trks

InitialRemaining(progress, pid, trks) ==
    IF ResumeFrom(progress, pid) THEN progress.remaining_tracks ELSE trks

\* a pause that grows with the attempt number (mutant of RetryPause)
RetryPauseGrowing(n) == delay * n

\* sleep(delay * 2) after failed attempt number n
RetryPause(n) == delay * 2

\* the pause of a retry taken after a successful append (mutant of
\* SuccessPause)
SuccessPauseAsRetry == delay * 2

\* sleep(delay) after a successful append
SuccessPause == delay


\* ------------------------------------------------- YouTube's playlists
Playlist(id, title, privacy) ==
    [id |-> id, title |-> title, privacyStatus |-> privacy]
Ids(youtube) == {p.id : p \in youtube}
Titles == {"mix", "jam"}
\* Every playlist id YouTube may know or hand out
AllIds == PlaylistIds \cup {"P3"}
\* playlists().list / playlists().insert answers, or raises HttpError
ApiOutcomes == {"ok", "HttpError"}

\* ---------------------------------------- create_or_get_youtube_playlist
ListCall(id) ==
    [api |-> "playlists.list", id |-> id, title |-> None,
     privacyStatus |-> None]
InsertCall(title) ==
    [api |-> "playlists.insert", id |-> None, title |-> title,
     privacyStatus |-> "private"]
Outcome(result, playlist, calls, youtube) ==
    [result |-> result, playlist |-> playlist, calls |-> calls,
     youtube |-> youtube]

\* an id that does not resolve falling back to creating a playlist under
\* the name given (mutant of create_or_get_youtube_playlist)
create_or_get_fallback(youtube, playlist_name, playlist_id, api, new) ==
    IF playlist_id # None /\ api = "HttpError"
    THEN Outcome("HttpError", None, <<ListCall(playlist_id)>>, youtube)
    ELSE IF playlist_id # None /\ playlist_id \in Ids(youtube)
    THEN Outcome("returned", playlist_id, <<ListCall(playlist_id)>>, youtube)
    ELSE IF playlist_name # None
    THEN Outcome("returned", new,
                 (IF playlist_id # None THEN <<ListCall(playlist_id)>>
                  ELSE <<>>) \o <<InsertCall(playlist_name)>>,
                 youtube \cup {Playlist(new, playlist_name, "private")})
    ELSE Outcome("ValueError", None, <<>>, youtube)

\* create_or_get_youtube_playlist(youtube, playlist_name, playlist_id):
\* youtube is the set of playlists that exist, api what the one API call
\* does, new the id YouTube gives a playlist it creates. The value is how
\* the call ends, the id of the playlist returned, the API calls made and
\* the playlists that exist afterwards.
create_or_get_youtube_playlist(youtube, playlist_name, playlist_id, api, new) ==
    IF playlist_id # None
    THEN IF api = "HttpError"
         THEN \* except HttpError: print, raise
              Outcome("HttpError", None, <<ListCall(playlist_id)>>, youtube)
         ELSE IF playlist_id \in Ids(youtube)
         THEN \* response.get('items'): return response['items'][0]
              Outcome("returned", playlist_id, <<ListCall(playlist_id)>>,
                      youtube)
         ELSE \* raise ValueError("No playlist found with ID: ...")
              Outcome("ValueError", None, <<ListCall(playlist_id)>>,
                      youtube)
    ELSE IF playlist_name # None
    THEN IF api = "HttpError"
         THEN Outcome("HttpError", None, <<InsertCall(playlist_name)>>,
                      youtube)
         ELSE Outcome("returned", new, <<InsertCall(playlist_name)>>,
                      youtube \cup {Playlist(new, playlist_name, "private")})
    ELSE \* raise ValueError("Either playlist_name or playlist_id ...")
         Outcome("ValueError", None, <<>>, youtube)

\* The ids YouTube may give the playlist a call creates: None stands for a
\* call that reaches no create
NewIds(youtube, playlist_name, playlist_id, ids) ==
    IF playlist_id = None /\ playlist_name # None
    THEN ids \ Ids(youtube)
    ELSE {None}

\* ------------------------------------------------------ get_spotify_tracks
\* An item of the source collection: item['track'] may be None, and a track
\* may lack its 'name' key or its artists' names.
FullItem(t) ==
    [track |-> TRUE, keys |-> {"name", "artists"}, name |-> t.name,
     artists |-> t.artists]
Unavailable ==
    [track |-> FALSE, keys |-> {}, name |-> None, artists |-> <<>>]
Nameless ==
    [track |-> TRUE, keys |-> {"artists"}, name |-> None,
     artists |-> <<"x">>]
SourceItems == {FullItem(TrackA1), FullItem(TrackB), Unavailable, Nameless}
Sources == UNION {[1..n -> SourceItems] : n \in 0..MaxItems}

Min(a, b) == IF a < b THEN a ELSE b

\* One page of Spotify's paging object: the items from offset on, at most
\* limit of them, and whether a next page exists ('next' is its URL)
Page(source, offset, limit) ==
    [items |-> SubSeq(source, offset + 1, Min(offset + limit, Len(source))),
     next |-> offset + limit < Len(source),
     offset |-> offset,
     limit |-> limit]
NoPage == [items |-> <<>>, next |-> FALSE, offset |-> 0, limit |-> 0]

\* the body of the for loop: a track with its fields is appended, an item
\* without a track or raising KeyError is skipped
TakeItem(tracks, item) ==
    IF item.track /\ {"name", "artists"} \subseteq item.keys
    THEN Append(tracks, [name |-> item.name, artists |-> item.artists])
    ELSE tracks

\* for item in results['items']
RECURSIVE TakePage(_, _)
TakePage(tracks, items) ==
    IF items = <<>> THEN tracks
    ELSE TakePage(TakeItem(tracks, Head(items)), Tail(items))

\* the next page: sp.current_user_saved_tracks(offset=len(tracks)) for the
\* liked songs, sp.next(results) for a playlist
FollowingPage(source, liked_songs, results, tracks) ==
    IF liked_songs
    THEN Page(source, Len(tracks), results.limit)
    ELSE Page(source, results.offset + results.limit, results.limit)

\* ------------------------------------------------------ transfer_playlist
\* only the destination being checked (mutant of ConfigError)
ConfigErrorDestinationOnly(name, yid, spid, liked) ==
    name = None /\ yid = None

\* the two checks transfer_playlist makes on its arguments
ConfigError(name, yid, spid, liked) ==
    \/ name = None /\ yid = None
    \/ spid = None /\ ~liked

\* ------------------------------------------------------------- state
VARIABLES
    file,              \* playlist_progress.json
    ytPlaylists,       \* ids of the playlists that exist on YouTube
    pc,                \* "idle" (no call under way), "search" (before
                       \* search().list), "insert", "done" (call ended)
    playlist_id,       \* search_and_add_to_playlist: playlist_id argument
    processed_tracks,  \* local: names added so far
    remaining_tracks,  \* local: tracks still to do
    iter,              \* the copy remaining_tracks[:] the for loop walks
    idx,               \* position of the for loop in iter
    retry_count,       \* local: failed attempts for the current track
    run,               \* how the current/last invocation began and ended
    start,             \* load_progress() as the run found it on entry
    cur,               \* calls and pauses made for the current track
    ev,                \* what the step just taken did to its track
    skips,             \* tracks of this run left on a skip path
    transfer,          \* the transfer under way since the last fresh start
    gst,               \* get_spotify_tracks: its arguments, locals, position
    cog                \* the last call of create_or_get_youtube_playlist

vars == <<file, ytPlaylists, pc, playlist_id, processed_tracks,
          remaining_tracks, iter, idx, retry_count, run, start, cur, ev,
          skips, transfer, gst, cog>>

locals == <<playlist_id, processed_tracks, remaining_tracks, iter, idx,
            retry_count>>

NoCalls == [searches |-> 0, hits |-> 0, inserts |-> 0, sleeps |-> <<>>]

\* ev: how the step ended for its track, the calls and pauses the track
\* got, and the file as the step's save_progress (if any) left it, before
\* the end of the run looks at it
NoEvent == [kind |-> "none", call |-> "none", track |-> TrackA1,
            searches |-> 0, hits |-> 0, inserts |-> 0, sleeps |-> <<>>,
            file |-> NoFile]
Event(kind, call, t, c, f) ==
    [kind |-> kind, call |-> call, track |-> t, searches |-> c.searches,
     hits |-> c.hits, inserts |-> c.inserts, sleeps |-> c.sleeps,
     file |-> f]

\* run: n invocations so far; the playlist the caller asked for; how the
\* invocation ended; the tracks argument of a run that began fresh (<<>> for
\* a resumed run, which never reads it) and its length; whether the caller
\* supplied a destination (name or id) and a source (playlist id or liked
\* songs); and, when the invocation raised, the calls it had made by then.
NoRun == [n |-> 0, requested |-> None, result |-> "none", input |-> <<>>,
          ninput |-> 0, destination |-> TRUE, source |-> TRUE,
          before |-> <<>>]
Supplied == [destination |-> TRUE, source |-> TRUE]
Begun(req, result, input, ninput, args, before) ==
    [n |-> run.n + 1, requested |-> req, result |-> result, input |-> input,
     ninput |-> ninput, destination |-> args.destination,
     source |-> args.source, before |-> before]

\* gst: the frame of get_spotify_tracks. pc is "idle" (not called), "items"
\* (before the for loop over the page in results), "next" (after it) or
\* "returned".
NoExtract == [pc |-> "idle", source |-> <<>>, liked_songs |-> FALSE,
              results |-> NoPage, tracks |-> <<>>]

\* cog: the n-th call of create_or_get_youtube_playlist, its arguments, what
\* the API did, the playlists that existed before it and what it did
NoResolve == [n |-> 0, playlist_name |-> None, playlist_id |-> None,
              api |-> "ok", before |-> {}, result |-> "none",
              playlist |-> None, calls |-> <<>>]

\* transfer: the playlist of the last fresh start and, per track, how many
\* of its occurrences in that start's list have not been appended to that
\* playlist since (by the fresh run or by a run resuming it).
NoTransfer == [playlist_id |-> None, unappended |-> [t \in Tracks |-> 0]]
Fresh(pid, trks) ==
    [playlist_id |-> pid, unappended |-> [t \in Tracks |-> Count(t, trks)]]

Init ==
    /\ file = NoFile
    /\ ytPlaylists = {Playlist("P1", "old", "public")}
    /\ pc = "idle"
    /\ playlist_id = None
    /\ processed_tracks = <<>>
    /\ remaining_tracks = <<>>
    /\ iter = <<>>
    /\ idx = 0
    /\ retry_count = 0
    /\ run = NoRun
    /\ start = Absent
    /\ cur = NoCalls
    /\ ev = NoEvent
    /\ skips = 0
    /\ transfer = NoTransfer
    /\ gst = NoExtract
    /\ cog = NoResolve

\* The track the for loop is at
track == iter[idx]

\* ------------------------------------------- search_and_add_to_playlist
\* An exception leaves the entry point before the loop is entered: the
\* call ends with no local of search_and_add_to_playlist bound. args tells
\* what the caller supplied, before the calls made until then.
Raise(req, exc, args, before) ==
    /\ run' = Begun(req, exc, <<>>, 0, args, before)
    /\ start' = load_progress(file)
    /\ cur' = NoCalls
    /\ ev' = NoEvent
    /\ skips' = 0
    /\ playlist_id' = None
    /\ processed_tracks' = <<>>
    /\ remaining_tracks' = <<>>
    /\ iter' = <<>>
    /\ idx' = 0
    /\ retry_count' = 0
    /\ pc' = "done"
    /\ UNCHANGED <<file, ytPlaylists, transfer, gst, cog>>

\* Entry of search_and_add_to_playlist up to the first pass of the for
\* loop; with nothing to iterate the function falls through to its end.
\* yt is the set of playlists the caller leaves on YouTube.
Enter(pid, trks, req, yt, args) ==
    LET progress == load_progress(file)
        proc0 == InitialProcessed(progress, pid)
        rem0 == InitialRemaining(progress, pid, trks)
        fresh == ~(progress.status = "ok" /\ progress.playlist_id = pid)
        input == IF fresh THEN trks ELSE <<>>
    IN
    /\ start' = progress
    /\ cur' = NoCalls
    /\ ev' = NoEvent
    /\ skips' = 0
    /\ ytPlaylists' = yt
    /\ playlist_id' = pid
    /\ processed_tracks' = proc0
    /\ remaining_tracks' = rem0
    /\ iter' = rem0
    /\ retry_count' = 0
    /\ transfer' = IF fresh THEN Fresh(pid, trks) ELSE transfer
    /\ UNCHANGED <<gst, cog>>
    /\ IF rem0 = <<>>
       THEN /\ pc' = "done"
            /\ idx' = 0
            /\ file' = Cleanup(rem0, file)
            /\ run' = Begun(req, "completed", input, Len(trks), args, <<>>)
       ELSE /\ pc' = "search"
            /\ idx' = 1
            /\ file' = file
            /\ run' = Begun(req, "running", input, Len(trks), args, <<>>)

\* A direct call search_and_add_to_playlist(youtube, pid, trks)
search_and_add_to_playlist ==
    /\ pc = "idle"
    /\ run.n < MaxRuns
    /\ \E pid \in Ids(ytPlaylists), trks \in TrackLists :
           IF load_progress(file).status = "corrupt"
           THEN Raise(pid, "JSONDecodeError", Supplied, <<"load_progress">>)
           ELSE Enter(pid, trks, pid, ytPlaylists, Supplied)

\* The current track is done with (break, or the while condition failing):
\* the for loop goes to its next track, or the function reaches its end.
Resolve(kind, call, c, proc, rem, f, rc) ==
    /\ processed_tracks' = proc
    /\ remaining_tracks' = rem
    /\ ev' = Event(kind, call, track, c, f)
    /\ cur' = NoCalls
    /\ skips' = IF kind = "added" THEN skips ELSE skips + 1
    /\ transfer' = IF kind = "added" /\ transfer.playlist_id = playlist_id
                   THEN [transfer EXCEPT !.unappended[track] = @ - 1]
                   ELSE transfer
    /\ IF idx < Len(iter)
       THEN /\ idx' = idx + 1
            /\ retry_count' = 0
            /\ pc' = "search"
            /\ file' = f
            /\ run' = run
       ELSE /\ idx' = idx
            /\ retry_count' = rc
            /\ pc' = "done"
            /\ file' = Cleanup(rem, f)
            /\ run' = [run EXCEPT !.result = "completed"]
    /\ UNCHANGED <<ytPlaylists, playlist_id, iter, start, gst, cog>>

Called(call) ==
    IF call = "search"
    THEN [cur EXCEPT !.searches = @ + 1]
    ELSE [cur EXCEPT !.inserts = @ + 1]

\* the quota stop returning without saving (mutant of QuotaExceeded)
QuotaExceededUnsaved(call) ==
    /\ file' = file
    /\ pc' = "done"
    /\ ev' = Event("quota", call, track, Called(call), file')
    /\ cur' = Called(call)
    /\ run' = [run EXCEPT !.result = "quota"]
    /\ UNCHANGED <<ytPlaylists, locals, start, skips, transfer, gst, cog>>

\* except HttpError with "quotaExceeded" in str(e): save and return
QuotaExceeded(call) ==
    /\ file' = save_progress(playlist_id, processed_tracks, remaining_tracks)
    /\ pc' = "done"
    /\ ev' = Event("quota", call, track, Called(call), file')
    /\ cur' = Called(call)
    /\ run' = [run EXCEPT !.result = "quota"]
    /\ UNCHANGED <<ytPlaylists, locals, start, skips, transfer, gst, cog>>

\* a failed attempt too many allowed per track (mutant of HttpError)
HttpErrorOneMore(call) ==
    LET c == Called(call) IN
    IF retry_count = max_retries
    THEN Resolve("exhausted", call, c, processed_tracks, remaining_tracks,
                 file, retry_count + 1)
    ELSE /\ retry_count' = retry_count + 1
         /\ cur' = [c EXCEPT !.sleeps = Append(@, RetryPause(retry_count + 1))]
         /\ pc' = "search"
         /\ ev' = NoEvent
         /\ UNCHANGED <<file, ytPlaylists, playlist_id, processed_tracks,
                        remaining_tracks, iter, idx, run, start, skips,
                        transfer, gst, cog>>

\* except HttpError, any other: count the attempt, pause and retry, or give
\* the track up when the attempts are used up
HttpError(call) ==
    LET c == Called(call) IN
    IF retry_count + 1 = max_retries
    THEN Resolve("exhausted", call, c, processed_tracks, remaining_tracks,
                 file, retry_count + 1)
    ELSE /\ retry_count' = retry_count + 1
         /\ cur' = [c EXCEPT !.sleeps = Append(@, RetryPause(retry_count + 1))]
         /\ pc' = "search"
         /\ ev' = NoEvent
         /\ UNCHANGED <<file, ytPlaylists, playlist_id, processed_tracks,
                        remaining_tracks, iter, idx, run, start, skips,
                        transfer, gst, cog>>

\* any exception handled as HttpError is: counted and retried (mutant of
\* Unexpected)
UnexpectedRetried(call) == HttpError(call)

\* except Exception: break
Unexpected(call) ==
    Resolve("unexpected", call, Called(call), processed_tracks,
            remaining_tracks, file, retry_count)

\* search().list(...).execute() returns a hit: its videoId is taken
SearchHit ==
    /\ pc = "search"
    /\ pc' = "insert"
    /\ cur' = [cur EXCEPT !.searches = @ + 1, !.hits = @ + 1]
    /\ ev' = NoEvent
    /\ UNCHANGED <<file, ytPlaylists, locals, run, start, skips, transfer,
                   gst, cog>>

\* search returns no items: "No results found", break
SearchNoResults ==
    /\ pc = "search"
    /\ Resolve("notfound", "search", Called("search"), processed_tracks,
               remaining_tracks, file, retry_count)

SearchQuotaExceeded ==
    /\ pc = "search"
    /\ QuotaExceeded("search")

SearchHttpError ==
    /\ pc = "search"
    /\ HttpError("search")

SearchUnexpected ==
    /\ pc = "search"
    /\ Unexpected("search")

\* playlistItems().insert succeeds: record, remove, save, sleep(delay), break
InsertOk ==
    /\ pc = "insert"
    /\ LET proc == Append(processed_tracks, track.name)
           rem == Remove(remaining_tracks, track)
           c == [cur EXCEPT !.inserts = @ + 1,
                            !.sleeps = Append(@, SuccessPause)]
       IN Resolve("added", "insert", c, proc, rem,
                  save_progress(playlist_id, proc, rem), retry_count)

InsertQuotaExceeded ==
    /\ pc = "insert"
    /\ QuotaExceeded("insert")

InsertHttpError ==
    /\ pc = "insert"
    /\ HttpError("insert")

InsertUnexpected ==
    /\ pc = "insert"
    /\ Unexpected("insert")

\* ------------------------------------------------------ transfer_playlist
\* The playlist the caller asked for: the id given, else a new playlist
Requested(name, yid) == IF yid # None THEN yid ELSE "new"

transfer_playlist ==
    /\ pc = "idle"
    /\ run.n < MaxRuns
    /\ \E name \in {None, "mix"}, yid \in {None} \cup PlaylistIds,
          spid \in {None, "S1"}, liked \in BOOLEAN :
        LET progress == load_progress(file)
            req == Requested(name, yid)
            args == [destination |-> name # None \/ yid # None,
                     source |-> spid # None \/ liked]
            clients == <<"get_youtube_client", "get_spotify_client">>
        IN
        IF ConfigError(name, yid, spid, liked)
        THEN Raise(req, "ValueError", args, <<>>)
        ELSE IF progress.status = "corrupt"
        THEN Raise(req, "JSONDecodeError", args,
                   clients \o <<"load_progress">>)
        ELSE IF progress.status = "ok"
        THEN \* saved progress: its playlist and its remaining tracks
             Enter(progress.playlist_id, progress.remaining_tracks, req,
                   ytPlaylists, args)
        ELSE \E extracted \in TrackLists, api \in ApiOutcomes,
                new \in NewIds(ytPlaylists, name, yid, PlaylistIds) :
             LET playlist == create_or_get_youtube_playlist(
                                 ytPlaylists, name, yid, api, new)
             IN IF playlist.result = "returned"
                THEN Enter(playlist.playlist, extracted,
                           IF yid # None THEN yid ELSE playlist.playlist,
                           playlist.youtube, args)
                ELSE Raise(req, playlist.result, args,
                           clients \o <<"load_progress",
                                        "get_spotify_tracks",
                                        "create_or_get_youtube_playlist">>)

\* The script ends: the process exits and only the file (and YouTube) keep
\* what the call did. The next call is a new process.
Exit ==
    /\ pc = "done"
    /\ run.n < MaxRuns
    /\ pc' = "idle"
    /\ playlist_id' = None
    /\ processed_tracks' = <<>>
    /\ remaining_tracks' = <<>>
    /\ iter' = <<>>
    /\ idx' = 0
    /\ retry_count' = 0
    /\ run' = [NoRun EXCEPT !.n = run.n]
    /\ start' = Absent
    /\ cur' = NoCalls
    /\ ev' = NoEvent
    /\ skips' = 0
    /\ UNCHANGED <<file, ytPlaylists, transfer, gst, cog>>

Next ==
    \/ search_and_add_to_playlist
    \/ transfer_playlist
    \/ SearchHit
    \/ SearchNoResults
    \/ SearchQuotaExceeded
    \/ SearchHttpError
    \/ SearchUnexpected
    \/ InsertOk
    \/ InsertQuotaExceeded
    \/ InsertHttpError
    \/ InsertUnexpected
    \/ Exit

Spec == Init /\ [][Next]_vars

\* --------------------------------------------- save_progress, step by step
\* save_progress as the file system sees it: open(..., 'w') truncates the
\* file, json.dump writes it chunk by chunk, leaving the with block closes
\* it. The process may die between any two of these steps.
ProcessedLists == {NameSeq(l) : l \in TrackLists}

\* open('playlist_progress.json', 'w'): the file exists and is empty
SaveOpen ==
    /\ pc = "idle"
    /\ run.n < MaxRuns
    /\ \E pid \in PlaylistIds, proc \in ProcessedLists, rem \in TrackLists :
           /\ playlist_id' = pid
           /\ processed_tracks' = proc
           /\ remaining_tracks' = rem
    /\ start' = load_progress(file)
    /\ file' = [exists |-> TRUE, content |-> <<>>]
    /\ pc' = "writing"
    /\ run' = Begun(None, "saving", <<>>, 0, Supplied, <<>>)
    /\ UNCHANGED <<ytPlaylists, iter, idx, retry_count, cur, ev, skips,
                   transfer, gst, cog>>

\* json.dump: the next chunk of the document reaches the file
SaveWrite ==
    /\ pc = "writing"
    /\ LET doc == json_dump(playlist_id, processed_tracks, remaining_tracks)
           n == Len(file.content)
       IN /\ n < Len(doc)
          /\ file' = [file EXCEPT !.content = Append(@, doc[n + 1])]
    /\ UNCHANGED <<ytPlaylists, pc, locals, run, start, cur, ev, skips,
                   transfer, gst, cog>>

\* the with block is left after the whole document was written
SaveClose ==
    /\ pc = "writing"
    /\ file.content =
           json_dump(playlist_id, processed_tracks, remaining_tracks)
    /\ pc' = "done"
    /\ run' = [run EXCEPT !.result = "saved"]
    /\ UNCHANGED <<file, ytPlaylists, locals, start, cur, ev, skips,
                   transfer, gst, cog>>

\* the process dies inside save_progress; the file stays as it is
Crash ==
    /\ pc = "writing"
    /\ pc' = "done"
    /\ run' = [run EXCEPT !.result = "crashed"]
    /\ UNCHANGED <<file, ytPlaylists, locals, start, cur, ev, skips,
                   transfer, gst, cog>>

NextCrash == SaveOpen \/ SaveWrite \/ SaveClose \/ Crash \/ Exit

SpecCrash == Init /\ [][NextCrash]_vars

\* ------------------------------------------- get_spotify_tracks, by page
others == <<file, ytPlaylists, pc, locals, run, start, cur, ev, skips,
            transfer>>

\* The call and its first request: sp.current_user_saved_tracks() or
\* sp.playlist_tracks(playlist_id), then tracks = []
get_spotify_tracks ==
    /\ gst.pc = "idle"
    /\ \E source \in Sources, liked_songs \in BOOLEAN, limit \in 1..MaxLimit :
           gst' = [pc |-> "items", source |-> source,
                   liked_songs |-> liked_songs,
                   results |-> Page(source, 0, limit), tracks |-> <<>>]
    /\ UNCHANGED <<others, cog>>

\* for item in results['items']: the tracks of the page are appended
TakeItems ==
    /\ gst.pc = "items"
    /\ gst' = [gst EXCEPT !.tracks = TakePage(@, gst.results.items),
                          !.pc = "next"]
    /\ UNCHANGED <<others, cog>>

\* if results['next']: the following page is requested and the while loop
\* goes round; else results = None, the loop ends and tracks is returned
NextPage ==
    /\ gst.pc = "next"
    /\ IF gst.results.next
       THEN gst' = [gst EXCEPT
                       !.results = FollowingPage(gst.source, gst.liked_songs,
                                                 gst.results, gst.tracks),
                       !.pc = "items"]
       ELSE gst' = [gst EXCEPT !.results = NoPage, !.pc = "returned"]
    /\ UNCHANGED <<others, cog>>

NextExtract == get_spotify_tracks \/ TakeItems \/ NextPage

SpecExtract == Init /\ [][NextExtract]_vars

\* Every request to Spotify is answered and the interpreter goes on: a step
\* that can be taken is taken
SpecExtractFair == SpecExtract /\ WF_vars(NextExtract)

\* ------------------------------- create_or_get_youtube_playlist, by call
\* One call, with any arguments, against the playlists YouTube has
ResolvePlaylist ==
    /\ cog.n < MaxResolves
    /\ \E name \in {None} \cup Titles, yid \in {None} \cup AllIds,
          api \in ApiOutcomes :
       \E new \in NewIds(ytPlaylists, name, yid, AllIds) :
           LET playlist == create_or_get_youtube_playlist(
                               ytPlaylists, name, yid, api, new)
           IN /\ ytPlaylists' = playlist.youtube
              /\ cog' = [n |-> cog.n + 1, playlist_name |-> name,
                         playlist_id |-> yid, api |-> api,
                         before |-> ytPlaylists,
                         result |-> playlist.result,
                         playlist |-> playlist.playlist,
                         calls |-> playlist.calls]
    /\ UNCHANGED <<file, pc, locals, run, start, cur, ev, skips, transfer,
                   gst>>

NextPlaylist == ResolvePlaylist

SpecPlaylist == Init /\ [][NextPlaylist]_vars

\* ============================================================ properties
\* The run has entered the loop (no exception left the entry point)
InRun == run.result \in {"running", "quota", "completed"}

\* The run took up the persisted record it found
Resumed == InRun /\ start.status = "ok" /\ start.playlist_id = playlist_id

\* Names the run began with: those of the record it resumed, else those of
\* its tracks argument
InitialNameSeq ==
    IF Resumed
    THEN start.processed_tracks \o NameSeq(start.remaining_tracks)
    ELSE NameSeq(run.input)

NoDuplicates(s) == \A i, j \in 1..Len(s) : s[i] = s[j] => i = j

\* The run stopped on a quota error of the append of track number idx, all
\* tracks before it having been appended, with no record found on entry
QuotaStopCase ==
    /\ run.result = "quota"
    /\ start.status = "absent"
    /\ ev.call = "insert"
    /\ skips = 0

\* C1: a run begun with no persisted record whose first k-1 tracks were
\* appended and whose k-th append signals quota exhaustion returns with
\* processed = the first k-1 names in order, remaining = tracks k..n in
\* order, the record on disk holding exactly that playlist id and split,
\* and no further call (the run is over).
QuotaStopSplit ==
    QuotaStopCase =>
        /\ pc = "done"
        /\ processed_tracks = NameSeq(SubSeq(run.input, 1, idx - 1))
        /\ remaining_tracks = SubSeq(run.input, idx, Len(run.input))
        /\ load_progress(file) =
               Loaded(playlist_id, processed_tracks, remaining_tracks)

QuotaStopWitness ==
    QuotaStopCase /\ idx >= 2 /\ Len(run.input) >= 2

\* C2 as stated: a resumed run issues calls only for tracks of the persisted
\* remaining list and never for a track whose name is in the persisted
\* processed list.
ResumeNeverProcessedName ==
    (Resumed /\ pc \in {"search", "insert"}) =>
        /\ track \in Range(start.remaining_tracks)
        /\ track.name \notin Range(start.processed_tracks)

\* C2 amended: a resumed run issues calls only for tracks of the persisted
\* remaining list, and only for a track that still has an occurrence not yet
\* appended; over a fresh run and the runs resuming it, every track is
\* appended at most as often as it occurs in the extracted list.
ResumeOnlyRemaining ==
    /\ (Resumed /\ pc \in {"search", "insert"}) =>
           /\ track \in Range(start.remaining_tracks)
           /\ transfer.playlist_id = playlist_id =>
                  transfer.unappended[track] >= 1
    /\ \A t \in Tracks : transfer.unappended[t] >= 0

ResumeWitness ==
    /\ Resumed
    /\ transfer.playlist_id = playlist_id
    /\ start.processed_tracks # <<>>
    /\ ev.kind = "added"

NotFoundRemoved ==
    ev.kind = "notfound" =>
        /\ ev.inserts = 0
        /\ ev.track \notin Range(remaining_tracks)

\* C5: a track whose append fails with a non-quota error on every attempt
\* gets exactly max_retries append attempts and is afterwards in neither
\* processed nor remaining.
ExhaustedCase == ev.kind = "exhausted" /\ ev.hits = max_retries

RetryExhaustionRemoved ==
    ExhaustedCase =>
        /\ ev.inserts = max_retries
        /\ ev.track \notin Range(remaining_tracks)
        /\ ev.track.name \notin Range(processed_tracks)

\* C6 as stated: the pauses between the attempts are delay, then twice the
\* delay (2 then 4), and none follows the last failed attempt.
BackoffDoubles ==
    ExhaustedCase => ev.sleeps = <<delay, delay * 2>>

\* C6 amended: the pause between consecutive attempts is delay * 2 every
\* time (4 then 4, it does not grow), and none follows the last attempt.
BackoffFixed ==
    ExhaustedCase =>
        ev.sleeps = [i \in 1..(max_retries - 1) |-> delay * 2]

BackoffWitness == ExhaustedCase /\ ev.inserts = max_retries

\* Every track of the run was found and appended, and the run is over
AllAddedCase == pc = "done" /\ run.result = "completed" /\ skips = 0

\* C7 as stated: when every track is found and appended, the record is
\* absent after the run and the length of processed is the number of input
\* tracks.
CompletionCount ==
    AllAddedCase =>
        /\ ~file.exists
        /\ Len(processed_tracks) = run.ninput

\* C7 amended: the record is absent after the run; the length of processed
\* is the number of input tracks when the run began fresh, and the number of
\* persisted processed names plus persisted remaining tracks when it resumed.
CompletionCleanup ==
    AllAddedCase =>
        /\ ~file.exists
        /\ Len(processed_tracks) =
               IF Resumed
               THEN Len(start.processed_tracks) + Len(start.remaining_tracks)
               ELSE run.ninput

CompletionWitness ==
    AllAddedCase /\ ev.kind = "added" /\ Len(processed_tracks) >= 2

\* C8: a run not stopped by quota ends with remaining empty and the record
\* deleted.
EndOfRunCleared ==
    (pc = "done" /\ run.result = "completed") =>
        /\ remaining_tracks = <<>>
        /\ ~file.exists

\* C9: a persisted record of another playlist than the one asked for is
\* ignored: the run works on the playlist asked for, through the freshly
\* extracted tracks, starting from an empty processed list.
MismatchedRecordIgnored ==
    (InRun /\ start.status = "ok" /\ start.playlist_id # run.requested) =>
        /\ playlist_id = run.requested
        /\ iter = run.input

\* C10: after a crash inside save_progress, load_progress returns the whole
\* previous record (or its absence) or the whole new record.
CrashAtomicSave ==
    run.result = "crashed" =>
        load_progress(file) \in
            {start, Loaded(playlist_id, processed_tracks, remaining_tracks)}

\* C11: when the caller supplies neither a destination playlist name nor
\* id, or neither a source playlist id nor the liked-songs flag,
\* transfer_playlist ends with ValueError having created no client, made no
\* call to Spotify or YouTube and neither read nor written the progress
\* file.
FailFastConfig ==
    ~(run.destination /\ run.source) =>
        /\ run.result = "ValueError"
        /\ run.before = <<>>
        /\ load_progress(file) = start
        /\ ~InRun

FailFastWitness ==
    /\ pc = "done"
    /\ run.result = "ValueError"
    /\ run.destination
    /\ ~run.source
    /\ file.exists

\* The items of a source collection that have a track with a name and
\* artist names, as track descriptors, in source order
Wanted(source) ==
    LET kept == SelectSeq(source, LAMBDA item :
                    item.track /\ {"name", "artists"} \subseteq item.keys)
    IN [k \in 1..Len(kept) |->
            [name |-> kept[k].name, artists |-> kept[k].artists]]

\* C12: for a playlist and for the liked songs, whatever the page size,
\* get_spotify_tracks returns exactly the source items that have a track
\* name and artist names, each once and in source order; a skipped item
\* makes no other item appear twice or go missing.
ExtractionExact ==
    gst.pc = "returned" => gst.tracks = Wanted(gst.source)

\* C13: for every finite source collection, a page of skippable items only
\* included, get_spotify_tracks, once called, comes to the end of the
\* pages and returns.
ExtractionTerminates ==
    (gst.pc = "items") ~> (gst.pc = "returned")

\* create_or_get_youtube_playlist was called with an id
ResolvedById == cog.n > 0 /\ cog.playlist_id # None

\* it was called with a name and no id
ResolvedByName ==
    cog.n > 0 /\ cog.playlist_id = None /\ cog.playlist_name # None

\* C14: with an id (whether or not a name comes with it) the playlist is
\* fetched by id in one call and nothing is created; when YouTube answers
\* that no such playlist exists the call raises, without a second attempt
\* and without creating a playlist under the name; a create call is made
\* only with a name and no id, and then exactly one playlist is created,
\* private, under that name.
ResolutionPrecedence ==
    /\ ResolvedById =>
           /\ Len(cog.calls) = 1
           /\ cog.calls[1].api = "playlists.list"
           /\ cog.calls[1].id = cog.playlist_id
           /\ ytPlaylists = cog.before
           /\ cog.result = "returned" =>
                  /\ cog.playlist = cog.playlist_id
                  /\ cog.playlist_id \in Ids(cog.before)
           /\ (cog.api = "ok" /\ cog.playlist_id \notin Ids(cog.before)) =>
                  cog.result = "ValueError"
    /\ (ResolvedByName /\ cog.api = "ok") =>
           /\ cog.result = "returned"
           /\ Len(cog.calls) = 1
           /\ cog.calls[1].api = "playlists.insert"
           /\ cog.calls[1].title = cog.playlist_name
           /\ cog.calls[1].privacyStatus = "private"
           /\ cog.playlist \notin Ids(cog.before)
           /\ ytPlaylists = cog.before \cup
                  {[id |-> cog.playlist, title |-> cog.playlist_name,
                    privacyStatus |-> "private"]}
    /\ (\E i \in 1..Len(cog.calls) : cog.calls[i].api = "playlists.insert")
           => ResolvedByName

\* An id that does not exist, given together with a name
ResolutionWitness ==
    /\ ResolvedById
    /\ cog.playlist_name # None
    /\ cog.api = "ok"
    /\ cog.playlist_id \notin Ids(cog.before)
    /\ cog.n = 2
    /\ Cardinality(cog.before) = 2

\* The step is a successful append: playlistItems().insert returned
AppendSucceeds == pc = "insert" /\ ev'.kind = "added"

\* s without its i-th element
Without(s, i) == SubSeq(s, 1, i - 1) \o SubSeq(s, i + 1, Len(s))

\* C15: a successful append is followed, before any search or append call
\* for the next track, by the track name being appended to processed, the
\* track being removed from remaining (one occurrence of it), the state
\* being saved (the record then holds the in-memory playlist id, processed
\* and remaining) and a pause of delay.
SuccessStepOrder ==
    [][AppendSucceeds =>
        /\ processed_tracks' = Append(processed_tracks, track.name)
        /\ \E i \in 1..Len(remaining_tracks) :
               /\ remaining_tracks[i] = track
               /\ remaining_tracks' = Without(remaining_tracks, i)
        /\ load_progress(ev'.file) =
               Loaded(playlist_id', processed_tracks', remaining_tracks')
        /\ pc' = "search" => file' = ev'.file
        /\ ev'.sleeps = Append(cur.sleeps, delay)
        /\ ev'.inserts = cur.inserts + 1
        /\ playlist_id' = playlist_id
        /\ cur' = NoCalls]_vars

\* An append succeeded and the loop is at the search of the next track
SuccessStepWitness ==
    /\ ev.kind = "added"
    /\ pc = "search"
    /\ idx = 2
    /\ remaining_tracks # <<>>
    /\ load_progress(file) =
           Loaded(playlist_id, processed_tracks, remaining_tracks)

\* The loop is under way: a call to YouTube is about to be made
InLoop == pc \in {"search", "insert"}

\* The most calls to YouTube the run can still make: two for each attempt
\* left for the current track and for every attempt of the tracks after it
Variant ==
    IF InLoop
    THEN (Len(iter) - idx) * 2 * max_retries
         + 2 * (max_retries - retry_count)
         - (IF pc = "insert" THEN 1 ELSE 0)
    ELSE 0

\* C16: whatever YouTube answers, the loop ends (every call brings it
\* strictly nearer to its end); the tracks are taken in the order of the
\* list the run began with, one at a time, a track getting its first call
\* only when the one before it is done with; and a track gets at most
\* max_retries search calls and at most max_retries append calls.
BoundedOrderedLoop ==
    [][/\ cur'.searches <= max_retries
       /\ cur'.inserts <= max_retries
       /\ ev'.searches <= max_retries
       /\ ev'.inserts <= max_retries
       /\ InLoop =>
           /\ Variant >= 1
           /\ Variant' >= 0
           /\ Variant' < Variant
           /\ iter' = iter
           /\ idx \in 1..Len(iter)
           /\ idx' \in {idx, idx + 1}
           /\ idx' = idx + 1 =>
                  /\ ev'.kind \in {"added", "notfound", "exhausted",
                                   "unexpected"}
                  /\ ev'.track = iter[idx]
                  /\ pc' = "search"
                  /\ retry_count' = 0
                  /\ cur' = NoCalls
           /\ (idx' = idx /\ pc' \in {"search", "insert"}) =>
                  ev'.kind = "none"
       /\ (pc = "idle" /\ pc' = "search") =>
           /\ idx' = 1
           /\ iter' = remaining_tracks'
           /\ iter' = IF start'.status = "ok"
                         /\ start'.playlist_id = playlist_id'
                      THEN start'.remaining_tracks
                      ELSE run'.input]_vars

\* A track used up its attempts, search and append called max_retries times
\* each, and the loop is at the next track
BoundedLoopWitness ==
    /\ ev.kind = "exhausted"
    /\ ev.searches = max_retries
    /\ ev.inserts = max_retries
    /\ pc = "search"
    /\ idx = 2

\* The step is a search or an append raising an exception that is not an
\* HttpError
UnexpectedStep == SearchUnexpected \/ InsertUnexpected

\* C17: when the search or the append for a track raises an exception that
\* is not an HttpError, the track gets no further attempt whatever is left
\* of its retries, is not added to processed (nor taken from remaining),
\* and the run goes on with the next track, or ends normally when there is
\* none.
UnexpectedIsolated ==
    [][UnexpectedStep =>
        /\ ev'.kind = "unexpected"
        /\ ev'.track = track
        /\ processed_tracks' = processed_tracks
        /\ remaining_tracks' = remaining_tracks
        /\ file' = file
        /\ cur' = NoCalls
        /\ IF idx < Len(iter)
           THEN /\ pc' = "search"
                /\ idx' = idx + 1
                /\ retry_count' = 0
                /\ run'.result = "running"
           ELSE /\ pc' = "done"
                /\ run'.result = "completed"]_vars

\* The first append for the first track raised, with every retry left, and
\* the loop is at the search of the second track
UnexpectedWitness ==
    /\ ev.kind = "unexpected"
    /\ ev.call = "insert"
    /\ ev.searches = 1
    /\ ev.inserts = 1
    /\ ev.sleeps = <<>>
    /\ pc = "search"
    /\ idx = 2
    /\ ev.track.name \notin Range(processed_tracks)

\* C18: a quota error raised by the search call, on the first attempt or
\* after failed attempts, stops the run as one raised by the append does:
\* the processed and remaining lists as they are get saved, the function
\* returns, no append is made for the track and no call for a later track.
SearchQuotaStops ==
    [][/\ SearchQuotaExceeded =>
           /\ pc' = "done"
           /\ run'.result = "quota"
           /\ UNCHANGED locals
           /\ load_progress(file') =
                  Loaded(playlist_id, processed_tracks, remaining_tracks)
           /\ ev'.kind = "quota"
           /\ ev'.track = track
           /\ cur'.searches = cur.searches + 1
           /\ cur'.inserts = cur.inserts
       /\ (pc = "done" /\ run.result = "quota") =>
           /\ pc' = "idle"
           /\ cur' = NoCalls
           /\ file' = file]_vars

\* The third search for the second track met the quota error, after two
\* appends for it had failed
SearchQuotaWitness ==
    /\ ev.kind = "quota"
    /\ ev.call = "search"
    /\ ev.searches = max_retries
    /\ ev.inserts = max_retries - 1
    /\ idx = 2
    /\ processed_tracks # <<>>
    /\ pc = "done"

\* C19: within a run the file is written only by a successful append or a
\* quota stop and deleted only at the end of the run (with nothing left in
\* remaining); a search without result, a failed attempt, the last failed
\* attempt of a track and an unexpected error leave the file as it is, the
\* record of another playlist included.
PersistenceFrame ==
    [][/\ InLoop =>
           /\ ev'.kind \notin {"added", "quota"} => file' = file
           /\ ev'.kind \in {"added", "quota"} =>
                  file' \in {save_progress(playlist_id', processed_tracks',
                                           remaining_tracks'), NoFile}
           /\ (file' # file /\ ~file'.exists) =>
                  /\ pc' = "done"
                  /\ run'.result = "completed"
                  /\ remaining_tracks' = <<>>
       /\ (pc = "idle" /\ file' # file) =>
           /\ pc' = "done"
           /\ run'.result = "completed"
           /\ remaining_tracks' = <<>>
           /\ file' = NoFile]_vars

\* The last track of a run was not found while the file held the record of
\* another playlist, and the run ended with the file as it was
PersistenceFrameWitness ==
    /\ ev.kind = "notfound"
    /\ pc = "done"
    /\ start.status = "ok"
    /\ start.playlist_id # playlist_id
    /\ load_progress(file) = start

====
